---- MODULE Spec2Model ----
(***************************************************************************)
(* Model of pysimlink/c_files/include/containers.hpp: the lookup keys      *)
(* map_key_1s / map_key_2s with their operator==, the pair_hash and        *)
(* Compare functors declared for them, and the ModelInfo aggregate with    *)
(* its DataType / ModelParam / BlockParam / Signal records.                *)
(*                                                                         *)
(* A std::string is a finite sequence of character codes.  A mapping-info  *)
(* handle (a pointer to rtwCAPI_ModelMappingInfo) is an address: 0 is null *)
(* and the other addresses hold a mapping-info structure as long as        *)
(* the owning model is loaded.                                             *)
(***************************************************************************)
EXTENDS Integers, Sequences, FiniteSets

\* ------------------------------------------------------------------ bounds
\* how many of the names of NameList the keys are built from
NumNames == 2
\* how many addresses hold a mapping-info structure
NumAddrs == 2
\* width of std::size_t in the model
HashBits == 3
\* how many records are appended to a ModelInfo
MaxRecords == 3

\* ----------------------------------------------------------------- strings
NameList == << <<1>>, <<2>>, <<1, 2>>, <<>>, <<2, 1>>, <<1, 1>> >>

Names == {NameList[i] : i \in 1..NumNames}

\* std::string operator== : same size and the same character at every index
StrEq(s, t) == Len(s) = Len(t) /\ \A i \in 1..Len(s) : s[i] = t[i]

\* std::string operator< : lexicographic on the characters, a proper prefix first
RECURSIVE StrLess(_, _)
StrLess(s, t) ==
  IF t = <<>> THEN FALSE
  ELSE IF s = <<>> THEN TRUE
  ELSE IF Head(s) # Head(t) THEN Head(s) < Head(t)
  ELSE StrLess(Tail(s), Tail(t))

\* ----------------------------------------------------------------- handles
NullHandle == 0

Addrs == 1..NumAddrs

Handles == {NullHandle} \cup Addrs

\* The structure an address holds.  Independently loaded models of the same
\* kind have structurally equal mapping-info at different addresses.
MMIContent(h) == "capi_mmi"

\* -------------------------------------------------------------------- keys
Slots == {1, 2, 3}

Kinds == {"1s", "2s"}

map_key_1s(a, c) == [a |-> a, c |-> c]

map_key_2s(a, b, c) == [a |-> a, b |-> b, c |-> c]

Keys1 == {map_key_1s(a, c) : a \in Names, c \in Handles}

Keys2 == {map_key_2s(x[1], x[2], c) : x \in Names \X Names, c \in Handles}

KeysOf(kd) == IF kd = "1s" THEN Keys1 ELSE Keys2

VARIABLES
  kind,          \* the key type of the three keys held
  keys,          \* Slots -> key : the operands
  loaded,        \* the addresses whose mapping-info is still alive
  eq_out,        \* results of operator== on every pair, <<>> before evaluation
  hash_out,      \* results of pair_hash on every key, <<>> before evaluation
  cmp_out,       \* results of Compare on every pair, <<>> before evaluation
  model_name,    \* ModelInfo::model_name
  model_params,  \* ModelInfo::model_params
  block_params,  \* ModelInfo::block_params
  signals,       \* ModelInfo::signals
  appended       \* history: the inputs of every append, in order

keyVars == <<kind, keys, loaded, eq_out, hash_out, cmp_out>>

infoVars == <<model_name, model_params, block_params, signals, appended>>

vars == <<kind, keys, loaded, eq_out, hash_out, cmp_out,
          model_name, model_params, block_params, signals, appended>>

\* ------------------------------------------------------------- operator==
map_key_1s_eq_deep(k, other) ==
  IF MMIContent(k.c) # MMIContent(other.c) THEN FALSE
  ELSE StrEq(k.a, other.a)

map_key_1s_eq(k, other) ==
  IF k.c # other.c THEN FALSE
  ELSE StrEq(k.a, other.a)

map_key_2s_eq_unordered(k, other) ==
  IF k.c # other.c THEN FALSE
  ELSE {k.a, k.b} = {other.a, other.b}

map_key_2s_eq_no_b(k, other) ==
  IF k.c # other.c THEN FALSE
  ELSE StrEq(k.a, other.a)

map_key_2s_eq_typo(k, other) ==
  IF k.c # other.c THEN FALSE
  ELSE StrEq(k.a, other.a) /\ StrEq(k.b, other.a)

map_key_2s_eq_deref(k, other) ==
  IF k.c \notin loaded \/ other.c \notin loaded THEN FALSE
  ELSE IF MMIContent(k.c) # MMIContent(other.c) \/ k.c # other.c THEN FALSE
  ELSE StrEq(k.a, other.a) /\ StrEq(k.b, other.b)

map_key_2s_eq(k, other) ==
  IF k.c # other.c THEN FALSE
  ELSE StrEq(k.a, other.a) /\ StrEq(k.b, other.b)

key_eq(kd, k, other) ==
  IF kd = "1s" THEN map_key_1s_eq(k, other) ELSE map_key_2s_eq(k, other)

\* --------------------------------------------------------------- pair_hash
Pow2(n) == IF n = 0 THEN 1 ELSE 2 ^ n

\* bitwise exclusive or of two n-bit values
RECURSIVE XorBits(_, _, _)
XorBits(x, y, n) ==
  IF n = 0 THEN 0
  ELSE (((x % 2) + (y % 2)) % 2) + 2 * XorBits(x \div 2, y \div 2, n - 1)

\* std::hash<std::string> : a value of size_t computed from the characters only
RECURSIVE StrHashFrom(_, _)
StrHashFrom(s, h) ==
  IF s = <<>> THEN h
  ELSE StrHashFrom(Tail(s), ((h * 31) + Head(s)) % Pow2(HashBits))

StrHash(s) == StrHashFrom(s, 0)

\* std::hash of a pointer : the address itself, as a size_t
PtrHash(c) == c % Pow2(HashBits)

pair_hash_1s_no_handle(p) == StrHash(p.a)

pair_hash_1s(p) == XorBits(StrHash(p.a), PtrHash(p.c), HashBits)

pair_hash_2s(p) ==
  XorBits(XorBits(StrHash(p.a), StrHash(p.b), HashBits), PtrHash(p.c), HashBits)

key_hash(kd, p) == IF kd = "1s" THEN pair_hash_1s(p) ELSE pair_hash_2s(p)

\* ----------------------------------------------------------------- Compare
Compare_1s(lhs, rhs) ==
  IF lhs.c # rhs.c THEN lhs.c < rhs.c
  ELSE StrLess(lhs.a, rhs.a)

Compare_2s_or(lhs, rhs) ==
  lhs.c < rhs.c \/ StrLess(lhs.a, rhs.a) \/ StrLess(lhs.b, rhs.b)

Compare_2s(lhs, rhs) ==
  IF lhs.c # rhs.c THEN lhs.c < rhs.c
  ELSE IF ~StrEq(lhs.a, rhs.a) THEN StrLess(lhs.a, rhs.a)
  ELSE StrLess(lhs.b, rhs.b)

key_less(kd, lhs, rhs) ==
  IF kd = "1s" THEN Compare_1s(lhs, rhs) ELSE Compare_2s(lhs, rhs)

\* ------------------------------------------------------- the key operations
Unevaluated == <<>>

InfoEmpty ==
  /\ model_name = ""
  /\ model_params = <<>>
  /\ block_params = <<>>
  /\ signals = <<>>
  /\ appended = <<>>

\* three keys of one key type, built from any names and any handles
Init ==
  /\ kind \in Kinds
  /\ keys \in [Slots -> KeysOf(kind)]
  /\ loaded = Addrs
  /\ eq_out = Unevaluated
  /\ hash_out = Unevaluated
  /\ cmp_out = Unevaluated
  /\ InfoEmpty

\* operator== applied to every ordered pair of the keys
EvalEq ==
  /\ eq_out' = [p \in Slots \X Slots |-> key_eq(kind, keys[p[1]], keys[p[2]])]
  /\ UNCHANGED <<kind, keys, loaded, hash_out, cmp_out>>
  /\ UNCHANGED infoVars

\* pair_hash applied to every key
EvalHash ==
  /\ hash_out' = [i \in Slots |-> key_hash(kind, keys[i])]
  /\ UNCHANGED <<kind, keys, loaded, eq_out, cmp_out>>
  /\ UNCHANGED infoVars

\* Compare applied to every ordered pair of the keys
EvalCompare ==
  /\ cmp_out' = [p \in Slots \X Slots |-> key_less(kind, keys[p[1]], keys[p[2]])]
  /\ UNCHANGED <<kind, keys, loaded, eq_out, hash_out>>
  /\ UNCHANGED infoVars

\* the owner of the mapping-info structures unloads the models: every handle
\* a key holds dangles from here on
Unload ==
  /\ loaded # {}
  /\ loaded' = {}
  /\ UNCHANGED <<kind, keys, eq_out, hash_out, cmp_out>>
  /\ UNCHANGED infoVars

\* the keys compared with operator==
Next ==
  \/ EvalEq
  \/ Unload

Spec == Init /\ [][Next]_vars

\* the keys in a hash container: pair_hash and operator==
NextHash ==
  \/ EvalEq
  \/ EvalHash
  \/ Unload

SpecHash == Init /\ [][NextHash]_vars

\* the keys in an ordered container: Compare, beside operator==
NextCompare ==
  \/ EvalEq
  \/ EvalCompare
  \/ Unload

SpecCompare == Init /\ [][NextCompare]_vars

\* --------------------------------------------------------------- ModelInfo
Orientations ==
  {"rtwCAPI_SCALAR", "rtwCAPI_VECTOR", "rtwCAPI_MATRIX_ROW_MAJOR",
   "rtwCAPI_MATRIX_COL_MAJOR", "rtwCAPI_MATRIX_COL_MAJOR_ND"}

DataType_swapped(cDataType, pythonType, dims, orientation) ==
  [cDataType |-> pythonType, pythonType |-> cDataType,
   dims |-> dims, orientation |-> orientation]

DataType(cDataType, pythonType, dims, orientation) ==
  [cDataType |-> cDataType, pythonType |-> pythonType,
   dims |-> dims, orientation |-> orientation]

ModelParam(model_param, data_type) ==
  [model_param |-> model_param, data_type |-> data_type]

BlockParam(block_name, block_param, data_type) ==
  [block_name |-> block_name, block_param |-> block_param, data_type |-> data_type]

Signal(block_name, signal_name, data_type) ==
  [block_name |-> block_name, signal_name |-> signal_name, data_type |-> data_type]

\* the values the records are built from: <<cDataType, pythonType, dims, orientation>>
DataTypeInputs ==
  { <<"double", "float64", <<1>>, "rtwCAPI_SCALAR">>,
    <<"int32_T", "int32", <<3>>, "rtwCAPI_VECTOR">>,
    <<"uint8_T", "uint8", <<2, 3>>, "rtwCAPI_MATRIX_COL_MAJOR">> }

ModelNames == {"model_a"}

BlockNames == {"Gain"}

ItemNames == {"p1", "p2"}

MakeDataType(d) == DataType(d[1], d[2], d[3], d[4])

\* a ModelInfo with its name set and nothing appended; the keys play no part
InitInfo ==
  /\ kind = "1s"
  /\ keys = [i \in Slots |-> map_key_1s(NameList[1], NullHandle)]
  /\ loaded = Addrs
  /\ eq_out = Unevaluated
  /\ hash_out = Unevaluated
  /\ cmp_out = Unevaluated
  /\ model_name \in ModelNames
  /\ model_params = <<>>
  /\ block_params = <<>>
  /\ signals = <<>>
  /\ appended = <<>>

\* model_params.push_back(ModelParam{n, d})
AppendModelParam(n, d) ==
  /\ Len(appended) < MaxRecords
  /\ model_params' = Append(model_params, ModelParam(n, MakeDataType(d)))
  /\ appended' = Append(appended, [rec |-> "ModelParam", names |-> <<n>>, dt |-> d])
  /\ UNCHANGED <<model_name, block_params, signals>>
  /\ UNCHANGED keyVars

\* block_params.push_back(BlockParam{b, n, d})
AppendBlockParam(b, n, d) ==
  /\ Len(appended) < MaxRecords
  /\ block_params' = Append(block_params, BlockParam(b, n, MakeDataType(d)))
  /\ appended' = Append(appended, [rec |-> "BlockParam", names |-> <<b, n>>, dt |-> d])
  /\ UNCHANGED <<model_name, model_params, signals>>
  /\ UNCHANGED keyVars

\* signals.push_back(Signal{b, n, d})
AppendSignal(b, n, d) ==
  /\ Len(appended) < MaxRecords
  /\ signals' = Append(signals, Signal(b, n, MakeDataType(d)))
  /\ appended' = Append(appended, [rec |-> "Signal", names |-> <<b, n>>, dt |-> d])
  /\ UNCHANGED <<model_name, model_params, block_params>>
  /\ UNCHANGED keyVars

NextInfo ==
  \/ \E n \in ItemNames, d \in DataTypeInputs : AppendModelParam(n, d)
  \/ \E b \in BlockNames, n \in ItemNames, d \in DataTypeInputs : AppendBlockParam(b, n, d)
  \/ \E b \in BlockNames, n \in ItemNames, d \in DataTypeInputs : AppendSignal(b, n, d)

SpecInfo == InitInfo /\ [][NextInfo]_vars

\* ------------------------------------------------------------------ claims
EqDone == eq_out # Unevaluated

HashDone == hash_out # Unevaluated

CmpDone == cmp_out # Unevaluated

Incomparable(i, j) == ~cmp_out[i, j] /\ ~cmp_out[j, i]

SameNames(i, j) ==
  /\ keys[i].a = keys[j].a
  /\ kind = "2s" => keys[i].b = keys[j].b

\* C1: two map_key_1s keys compare equal exactly when they hold the identical
\* handle and equal names; equal names on different handles, or different
\* names on the same handle, compare unequal.
C1_Key1EqIff ==
  (kind = "1s" /\ EqDone) =>
    \A i, j \in Slots :
      eq_out[i, j] <=> (keys[i].c = keys[j].c /\ keys[i].a = keys[j].a)

C1_Witness ==
  /\ kind = "1s" /\ EqDone
  /\ keys[1].c \in Addrs /\ keys[2].c \in Addrs /\ keys[1].c # keys[2].c
  /\ keys[1].a = keys[2].a /\ ~eq_out[1, 2]
  /\ keys[3].c = keys[1].c /\ keys[3].a # keys[1].a /\ ~eq_out[1, 3]
  /\ eq_out[1, 1]

\* C2: two map_key_2s keys compare equal exactly when they hold the identical
\* handle and their names agree position by position; one differing field,
\* or the two names swapped, makes them unequal.
C2_Key2EqIff ==
  (kind = "2s" /\ EqDone) =>
    \A i, j \in Slots :
      eq_out[i, j] <=>
        (keys[i].c = keys[j].c /\ keys[i].a = keys[j].a /\ keys[i].b = keys[j].b)

C2_Witness ==
  /\ kind = "2s" /\ EqDone
  /\ keys[1].a # keys[1].b
  /\ keys[2] = map_key_2s(keys[1].b, keys[1].a, keys[1].c) /\ ~eq_out[1, 2]
  /\ keys[3] = keys[1] /\ eq_out[1, 3] /\ eq_out[3, 1]

\* C3: keys that compare equal under operator== have the same pair_hash value.
C3_HashConsistent ==
  (EqDone /\ HashDone) =>
    \A i, j \in Slots : eq_out[i, j] => hash_out[i] = hash_out[j]

C3_Witness ==
  /\ kind = "2s" /\ EqDone /\ HashDone
  /\ eq_out[1, 2] /\ hash_out[1] = hash_out[2]
  /\ keys[3].c = keys[1].c /\ keys[3].a = keys[1].a /\ keys[3].b # keys[1].b
  /\ ~eq_out[1, 3] /\ hash_out[1] # hash_out[3]

\* C4: Compare is a strict weak ordering: irreflexive, asymmetric, transitive,
\* and with transitive incomparability.
C4_StrictWeakOrder ==
  CmpDone =>
    /\ \A i \in Slots : ~cmp_out[i, i]
    /\ \A i, j \in Slots : cmp_out[i, j] => ~cmp_out[j, i]
    /\ \A i, j, l \in Slots : (cmp_out[i, j] /\ cmp_out[j, l]) => cmp_out[i, l]
    /\ \A i, j, l \in Slots :
         (Incomparable(i, j) /\ Incomparable(j, l)) => Incomparable(i, l)

C4_Witness ==
  /\ kind = "2s" /\ CmpDone
  /\ keys[1].c = keys[2].c /\ keys[2].c # keys[3].c
  /\ cmp_out[1, 2] /\ cmp_out[2, 3] /\ cmp_out[1, 3]
  /\ ~cmp_out[2, 1] /\ ~cmp_out[3, 2]

\* C5: two keys are incomparable under Compare exactly when operator== holds
\* of them.
C5_CompareMatchesEq ==
  (EqDone /\ CmpDone) =>
    \A i, j \in Slots : Incomparable(i, j) <=> eq_out[i, j]

C5_Witness ==
  /\ kind = "1s" /\ EqDone /\ CmpDone
  /\ keys[1] = keys[2] /\ Incomparable(1, 2) /\ eq_out[1, 2]
  /\ keys[3].a = keys[1].a /\ keys[3].c # keys[1].c
  /\ ~eq_out[1, 3] /\ ~Incomparable(1, 3)

C9_EqEquivalence ==
  EqDone =>
    /\ \A i \in Slots : eq_out[i, i]
    /\ \A i, j \in Slots : eq_out[i, j] => eq_out[j, i]
    /\ \A i, j, l \in Slots : (eq_out[i, j] /\ eq_out[j, l]) => eq_out[i, l]

C9_Witness ==
  /\ kind = "2s" /\ EqDone
  /\ keys[1].a # keys[1].b
  /\ eq_out[1, 1] /\ eq_out[1, 2] /\ eq_out[2, 1]
  /\ eq_out[2, 3] /\ eq_out[1, 3]

\* C10: operator== is total and pure: a result is a boolean for every pair,
\* null and dangling handles included; an evaluation changes neither the keys
\* nor the mapping-info; evaluating again, also after the models were
\* unloaded, gives the same result.
C10_EqPureTotal ==
  [][(eq_out' # eq_out) =>
       /\ eq_out = Unevaluated
       /\ eq_out' \in [Slots \X Slots -> BOOLEAN]
       /\ keys' = keys /\ kind' = kind /\ loaded' = loaded]_vars

C10_Witness ==
  /\ kind = "2s" /\ EqDone /\ loaded = {}
  /\ keys[1].c = NullHandle /\ eq_out[1, 1]
  /\ keys[2].c \in Addrs /\ keys[3] = keys[2] /\ eq_out[2, 3] /\ ~eq_out[1, 2]

\* what was appended as records of kind r, in order
AppendedOf(r) == SelectSeq(appended, LAMBDA e : e.rec = r)

DataTypeReadsBack(t, d) ==
  /\ t.cDataType = d[1]
  /\ t.pythonType = d[2]
  /\ t.dims = d[3]
  /\ t.orientation = d[4]

\* C7: each of the three sequences of a ModelInfo reads back exactly the
\* records appended to it, in the order of the appends and with every field
\* as given; an append to one sequence leaves the other two as they were.
C7_RoundTrip ==
  LET mp == AppendedOf("ModelParam")
      bp == AppendedOf("BlockParam")
      sg == AppendedOf("Signal")
  IN /\ Len(model_params) = Len(mp)
     /\ \A i \in 1..Len(mp) :
          /\ model_params[i].model_param = mp[i].names[1]
          /\ DataTypeReadsBack(model_params[i].data_type, mp[i].dt)
     /\ Len(block_params) = Len(bp)
     /\ \A i \in 1..Len(bp) :
          /\ block_params[i].block_name = bp[i].names[1]
          /\ block_params[i].block_param = bp[i].names[2]
          /\ DataTypeReadsBack(block_params[i].data_type, bp[i].dt)
     /\ Len(signals) = Len(sg)
     /\ \A i \in 1..Len(sg) :
          /\ signals[i].block_name = sg[i].names[1]
          /\ signals[i].signal_name = sg[i].names[2]
          /\ DataTypeReadsBack(signals[i].data_type, sg[i].dt)

C7_Witness ==
  /\ Len(appended) = 3
  /\ appended[1].rec = "Signal" /\ appended[2].rec = "ModelParam"
  /\ appended[3].rec = "Signal"
  /\ Len(signals) = 2 /\ Len(model_params) = 1 /\ Len(block_params) = 0
  /\ signals[1].signal_name = "p2" /\ signals[2].signal_name = "p1"
  /\ signals[1].data_type.dims = <<2, 3>> /\ signals[2].data_type.dims = <<1>>
  /\ model_params[1].data_type.orientation = "rtwCAPI_VECTOR"

====
